---- MODULE Spec2Model ----
(***************************************************************************)
(* A model of update-imported-docs.py: the module-level prerequisite       *)
(* checks, main()'s per-repository loop (clone, generate, copy files) and  *)
(* the two regex-driven link transforms.                                   *)
(*                                                                         *)
(* Text is modelled as a sequence of lexemes.  A lexeme is either a single *)
(* character that the code inspects ("[", "]", "(", ")", "/", "#", " ",    *)
(* "\n") or an indivisible run of characters ("https://", "kubectl",       *)
(* ".md", "docs", ...).  startswith/endswith/split/regex matching are      *)
(* computed on these sequences the way Python computes them on characters. *)
(***************************************************************************)
EXTENDS Integers, Sequences, FiniteSets, TLC

(***************************************************************************)
(* Bounds of the model.                                                    *)
(***************************************************************************)
\* the number of entries of config_data["repos"]
MaxRepos == 2
\* the number of entries of one repo's "files" list
MaxFiles == 2
\* the number of paths one glob.glob() call returns
MaxMatches == 2
\* the number of links of the contents the transforms are applied to
MaxLinks == 2

(***************************************************************************)
(* Python str operations on lexeme sequences.                              *)
(***************************************************************************)
NL == "\n"

startswith(s, p) == Len(s) >= Len(p) /\ SubSeq(s, 1, Len(p)) = p

endswith(s, p) == Len(s) >= Len(p) /\ SubSeq(s, Len(s) - Len(p) + 1, Len(s)) = p

\* s[n:]
slice_from(s, n) == SubSeq(s, n + 1, Len(s))

\* str.find(sep): the 1-based index of the first occurrence of sep, 0 if none
str_find(s, sep) ==
  LET hits == {p \in 1..(Len(s) - Len(sep) + 1) : SubSeq(s, p, p + Len(sep) - 1) = sep}
  IN IF hits = {} THEN 0 ELSE CHOOSE p \in hits : \A q \in hits : p <= q

\* s.split(sep): the fields around the occurrences of sep, left to right
RECURSIVE str_split(_, _)
str_split(s, sep) ==
  LET p == str_find(s, sep)
  IN IF p = 0 THEN <<s>>
     ELSE <<SubSeq(s, 1, p - 1)>> \o str_split(slice_from(s, p + Len(sep) - 1), sep)

\* "/".join(parts)
RECURSIVE str_join(_)
str_join(parts) ==
  IF Len(parts) = 0 THEN <<>>
  ELSE IF Len(parts) = 1 THEN parts[1]
  ELSE parts[1] \o <<"/">> \o str_join(Tail(parts))

(***************************************************************************)
(* os.path on POSIX.                                                       *)
(***************************************************************************)
\* os.path.join(a, b): an absolute b discards a
os_path_join(a, b) ==
  IF startswith(b, <<"/">>) THEN b
  ELSE IF a = <<>> \/ endswith(a, <<"/">>) THEN a \o b
  ELSE a \o <<"/">> \o b

\* the index of the last "/" of p, 0 if none
last_slash(p) ==
  LET hits == {k \in 1..Len(p) : p[k] = "/"}
  IN IF hits = {} THEN 0 ELSE CHOOSE k \in hits : \A q \in hits : q <= k

\* os.path.basename(p)
os_path_basename(p) == slice_from(p, last_slash(p))

\* os.path.dirname(p): the head, its trailing slashes stripped unless it is all slashes
RECURSIVE rstrip_slash(_)
rstrip_slash(h) ==
  IF h # <<>> /\ h[Len(h)] = "/" THEN rstrip_slash(SubSeq(h, 1, Len(h) - 1)) ELSE h

os_path_dirname(p) ==
  LET head == SubSeq(p, 1, last_slash(p))
  IN IF head # <<>> /\ \E k \in 1..Len(head) : head[k] # "/" THEN rstrip_slash(head) ELSE head

(***************************************************************************)
(* The link regexes of lines 77 and 101: a "[", the group ankor, "](",     *)
(* the group target, a ")".  Both groups are "any characters": the dot     *)
(* does not match a newline; ankor is greedy in both; target is greedy in  *)
(* process_links and lazy in process_kubectl_links.  re.sub replaces the   *)
(* leftmost match, then goes on after its end.                             *)
(***************************************************************************)
\* the last index of the line that holds index i
line_end(s, i) ==
  LET nls == {k \in i..Len(s) : s[k] = NL}
  IN IF nls = {} THEN Len(s) ELSE (CHOOSE k \in nls : \A q \in nls : k <= q) - 1

\* the indices j of a "](" after the "[" at i that a ")" follows on the same line
link_closers(s, i) ==
  {j \in (i + 1)..(line_end(s, i) - 2) :
     /\ s[j] = "]"
     /\ s[j + 1] = "("
     /\ \E k \in (j + 2)..line_end(s, i) : s[k] = ")"}

\* the match that starts at i: the greedy ankor takes the last "](" that still lets
\* the rest match; the target takes the last ")" (greedy) or the first (lazy)
link_match_at(s, i, lazy) ==
  LET J == link_closers(s, i)
      j == CHOOSE x \in J : \A y \in J : y <= x
      K == {k \in (j + 2)..line_end(s, i) : s[k] = ")"}
      k == IF lazy THEN CHOOSE x \in K : \A y \in K : x <= y
                   ELSE CHOOSE x \in K : \A y \in K : y <= x
  IN [found |-> TRUE, start |-> i, stop |-> k,
      ankor |-> SubSeq(s, i + 1, j - 1), target |-> SubSeq(s, j + 2, k - 1)]

\* regex.search(s, pos=from): the leftmost match at or after index from
link_search(s, from, lazy) ==
  LET starts == {i \in from..Len(s) : s[i] = "[" /\ link_closers(s, i) # {}}
  IN IF starts = {} THEN [found |-> FALSE]
     ELSE link_match_at(s, CHOOSE i \in starts : \A q \in starts : i <= q, lazy)

\* "[%s](%s)" % (ankor, target)
link_format(ankor, target) == <<"[">> \o ankor \o <<"]", "(">> \o target \o <<")">>

(***************************************************************************)
(* process_links                                                           *)
(***************************************************************************)
\* the test of lines 64-66, negated: the target is left as it is
target_is_kept(target) ==
  \/ startswith(target, <<"https://">>)
  \/ startswith(target, <<"mailto:">>)
  \/ startswith(target, <<"#">>)

\* process_links.analyze: the replacement of one match
process_links_analyze(ankor, target, remote_prefix, sub_path) ==
  IF ~target_is_kept(target)
  THEN IF startswith(target, <<"/">>)
       THEN link_format(ankor, str_join(<<remote_prefix, slice_from(target, 1)>>))
       ELSE link_format(ankor, str_join(<<remote_prefix, sub_path, target>>))
  ELSE link_format(ankor, target)

\* re.sub(link_regex, analyze, content), from index from on
RECURSIVE links_sub(_, _, _, _)
links_sub(content, remote_prefix, sub_path, from) ==
  LET m == link_search(content, from, FALSE)
  IN IF ~m.found THEN SubSeq(content, from, Len(content))
     ELSE SubSeq(content, from, m.start - 1)
          \o process_links_analyze(m.ankor, m.target, remote_prefix, sub_path)
          \o links_sub(content, remote_prefix, sub_path, m.stop + 1)

\* re.sub(h1_regex, "", content): an optional "# ..." then a newline, at the start of
\* the string only (no re.MULTILINE)
h1_sub(content) ==
  IF startswith(content, <<"#", " ">>) /\ line_end(content, 1) < Len(content)
  THEN slice_from(content, line_end(content, 1) + 1)
  ELSE IF startswith(content, <<NL>>) THEN slice_from(content, 1)
  ELSE content

process_links(content, remote_prefix, sub_path) ==
  h1_sub(links_sub(content, remote_prefix, sub_path, 1))

(***************************************************************************)
(* process_kubectl_links.  ankor.split("kubectl ")[1] raises IndexError    *)
(* when the ankor does not hold "kubectl "; the result records that.       *)
(***************************************************************************)
KUBECTL_COMMANDS == <<"/", "docs", "/", "reference", "/", "generated", "/", "kubectl", "/",
                      "kubectl-commands">>

\* process_kubectl_links.analyze: the replacement of one match, or the IndexError
process_kubectl_links_analyze(ankor, target) ==
  IF endswith(target, <<".md">>) /\ startswith(target, <<"kubectl">>)
  THEN LET ankor_list == str_split(ankor, <<"kubectl", " ">>)
       IN IF Len(ankor_list) < 2 THEN [raised |-> TRUE, text |-> <<>>]
          ELSE [raised |-> FALSE,
                text |-> link_format(ankor, KUBECTL_COMMANDS \o <<"#">> \o ankor_list[2])]
  ELSE [raised |-> FALSE, text |-> link_format(ankor, target)]

\* re.sub(link_regex, analyze, content), from index from on; an exception of analyze
\* leaves re.sub
RECURSIVE kubectl_sub(_, _)
kubectl_sub(content, from) ==
  LET m == link_search(content, from, TRUE)
  IN IF ~m.found THEN [raised |-> FALSE, text |-> SubSeq(content, from, Len(content))]
     ELSE LET r == process_kubectl_links_analyze(m.ankor, m.target)
              rest == kubectl_sub(content, m.stop + 1)
          IN IF r.raised \/ rest.raised THEN [raised |-> TRUE, text |-> <<>>]
             ELSE [raised |-> FALSE,
                   text |-> SubSeq(content, from, m.start - 1) \o r.text \o rest.text]

process_kubectl_links(content) == kubectl_sub(content, 1)

(***************************************************************************)
(* The transforms on their own: SpecText applies process_links (once and   *)
(* again to its own output) and process_kubectl_links to contents built    *)
(* from a heading line and up to MaxLinks inline links.                    *)
(***************************************************************************)
VARIABLES
  t_doc,        \* the content's parts: [head, links, sep]
  t_repo_path,  \* process_file's repo_path
  t_src,        \* the matched source path (process_file's loop variable src)
  t_out,        \* the results of the successive process_links calls
  t_kube        \* <<>> or <<r>>, r the outcome of process_kubectl_links(content)

text_vars == <<t_doc, t_repo_path, t_src, t_out, t_kube>>

LinkTexts == {<<"kubectl", " ", "get">>, <<"get">>, <<"see", " ", "kubectl", " ", "get">>}

LinkUrls == {<<"https://", "h">>, <<"mailto:", "m">>, <<"#", "top">>, <<"/", "abs", ".md">>,
             <<"rel", ".md">>, <<"kubectl", "_", "get", ".md">>}

Links == [text : LinkTexts, url : LinkUrls]

Heads == {<<>>, <<"#", " ", "Title", NL>>, <<NL>>}

Seps == {<<" ">>, <<NL>>}

Docs == [head : Heads, links : UNION {[1..n -> Links] : n \in 1..MaxLinks}, sep : Seps]

\* the repo_path values main() can pass: os.path.join("src", prefix)
TextRepoPaths == {<<"src", "/", "h", "/", "r">>, <<"/", "abs">>}

TextSrcs == {<<"/", "w", "/", "src", "/", "h", "/", "r", "/", "docs", "/", "f", ".md">>}

RECURSIVE RenderLinks(_, _)
RenderLinks(links, sep) ==
  IF Len(links) = 0 THEN <<>>
  ELSE IF Len(links) = 1 THEN link_format(links[1].text, links[1].url)
  ELSE link_format(links[1].text, links[1].url) \o sep \o RenderLinks(Tail(links), sep)

\* the content a doc stands for
RenderDoc(doc) == doc.head \o RenderLinks(doc.links, doc.sep)

\* process_file, lines 145-146
text_remote_prefix == t_repo_path \o <<"/", "tree", "/", "master">>

text_src_dir == os_path_dirname(t_src)

(***************************************************************************)
(* Statements about the transforms.  InlineLinks reads the links of a text *)
(* the way Markdown does, each link on its own: a "[", the text up to the  *)
(* next "](", the url up to the next ")".                                  *)
(***************************************************************************)
FirstAt(s, from, P(_)) ==
  LET hits == {k \in from..Len(s) : P(k)}
  IN IF hits = {} THEN 0 ELSE CHOOSE k \in hits : \A q \in hits : k <= q

RECURSIVE InlineLinks(_)
InlineLinks(s) ==
  LET i == FirstAt(s, 1, LAMBDA k : s[k] = "[")
      j == IF i = 0 THEN 0
           ELSE FirstAt(s, i + 1, LAMBDA k : k < Len(s) /\ s[k] = "]" /\ s[k + 1] = "(")
      e == IF j = 0 THEN 0 ELSE FirstAt(s, j + 2, LAMBDA k : s[k] = ")")
  IN IF e = 0 THEN <<>>
     ELSE <<[text |-> SubSeq(s, i + 1, j - 1), url |-> SubSeq(s, j + 2, e - 1)]>>
          \o InlineLinks(slice_from(s, e))

IsAbsoluteUrl(url) == url # <<>> /\ url[1] \in {"https://", "mailto:", "#"}

\* the url the absolutize transform is to give a link
AbsolutizedUrl(url) ==
  IF IsAbsoluteUrl(url) THEN url
  ELSE IF url # <<>> /\ url[1] = "/" THEN text_remote_prefix \o <<"/">> \o Tail(url)
  ELSE text_remote_prefix \o <<"/">> \o text_src_dir \o <<"/">> \o url

\* C5: after process_links every inline link of the content has its text as it was
\* and its url absolutized on its own: kept when it starts with https://, mailto: or
\* #, else <remote_prefix>/<url without its leading slash> or
\* <remote_prefix>/<source directory>/<url>.
C5_EveryLinkAbsolutized ==
  Len(t_out) >= 1 =>
    InlineLinks(t_out[1]) =
      [k \in 1..Len(t_doc.links) |->
         [text |-> t_doc.links[k].text, url |-> AbsolutizedUrl(t_doc.links[k].url)]]

\* C6: a second process_links (same remote_prefix and source directory) leaves every
\* link of the first one's output as it is.
C6_SecondPassChangesNoLink ==
  Len(t_out) = 2 => InlineLinks(t_out[2]) = InlineLinks(t_out[1])

\* the link the kubectl transform is to give
KubectlLink(link) ==
  IF /\ endswith(link.url, <<".md">>)
     /\ startswith(link.url, <<"kubectl">>)
     /\ startswith(link.text, <<"kubectl", " ">>)
  THEN [text |-> link.text,
        url |-> KUBECTL_COMMANDS \o <<"#">> \o SubSeq(link.text, 3, Len(link.text))]
  ELSE link

\* C7: process_kubectl_links returns normally, and in its result every link whose
\* url ends in .md and begins with kubectl and whose text begins with "kubectl " has
\* the url /docs/reference/generated/kubectl/kubectl-commands#<text without the
\* prefix>, and every other link is as it was.
C7_KubectlLinks ==
  t_kube # <<>> =>
    /\ ~t_kube[1].raised
    /\ InlineLinks(t_kube[1].text) = [k \in 1..Len(t_doc.links) |-> KubectlLink(t_doc.links[k])]

(***************************************************************************)
(* The run: the module-level prerequisite tests (lines 38-55), then main() *)
(* (lines 175-275) with process_file (lines 107-154) for every entry of a  *)
(* repo's "files".                                                         *)
(*                                                                         *)
(* config_data is read-only once loaded and entry i of its "repos" is      *)
(* first read in iteration i, so the model draws entry i when the loop     *)
(* reaches it; likewise a "files" entry when process_file is called for    *)
(* it.  A key that may be absent is <<>> when absent and <<value>> when    *)
(* present.                                                                *)
(***************************************************************************)
VARIABLES
  pc,          \* the statement the run is at
  env,         \* what is installed: [pip, pip_freeze, PyYAML, go]
  error_msgs,  \* the module-level list error_msgs
  printed,     \* the lines the latest step printed
  exit,        \* <<>> while running, <<status>> once the process has ended
  work_dir,    \* <<>> until tempfile.mkdtemp() has returned, <<path>> after
  n_repos,     \* len(config_data["repos"])
  i,           \* the index of the current entry of config_data["repos"]
  repo,        \* the current entry
  repo_path,   \* main()'s repo_path for the current entry
  clone,       \* <<>> or <<[remote, path, res]>>: the current entry's git clone
  gen,         \* <<>> or <<res>>: the exit status of the current entry's generate-command
  done,        \* how each earlier entry ended, in order
  f,           \* the index of the current entry of repo["files"]
  file,        \* the current entry of repo["files"]: [src, dst]
  matches,     \* what glob.glob(pattern) returned for it
  m,           \* the index of the current match
  fs,          \* the files under root_dir: a set of [path, data]
  last         \* the latest iteration of process_file's loop

run_vars == <<pc, env, error_msgs, printed, exit, work_dir, n_repos, i, repo, repo_path,
              clone, gen, done, f, file, matches, m, fs, last>>

vars == <<run_vars, text_vars>>

\* the process's exit status: sys.exit(None) is 0, sys.exit(n) is n modulo 256, an
\* uncaught exception is 1
ExitNone == 0
ExitUncaught == 1
ByteRange == 256
exit_status(n) == n % ByteRange

MSG_PIP == "Install pip so you can install PyYAML."
MSG_PYYAML == "Please ensure the PyYAML package is installed"
MSG_GO == "Go must be installed."

Envs == [pip : BOOLEAN, pip_freeze : BOOLEAN, PyYAML : BOOLEAN, go : BOOLEAN]

\* os.path.realpath(os.path.join(curr_dir, '..')) and the directory mkdtemp makes
root_dir == <<"/", "site">>
TMP_WORK_DIR == <<"/", "tmp", "/", "w">>

Remotes == {<<"https://", "h", "/", "r", ".git">>, <<"https://", "/", "abs", ".git">>,
            <<"git@", "h", ":", "r", ".git">>}

Option(S) == {<<>>} \cup {<<x>> : x \in S}

Repos == [name : Option({"n"}), remote : Option(Remotes), branch : Option({"main"}),
          generate_command : Option({"make"}), gen_absolute_links : BOOLEAN,
          n_files : 0..MaxFiles]

NoRepo == [name |-> <<>>, remote |-> <<>>, branch |-> <<>>, generate_command |-> <<>>,
           gen_absolute_links |-> FALSE, n_files |-> 0]

\* a files entry: src is relative to the clone, dst is relative to root_dir
FileSrcs == {<<"docs", "/", "*">>}
FileDsts == {<<"docs", "/">>, <<"docs", "/", "kubectl", ".md">>,
             <<"docs", "/", "my", "kubectl", ".md">>}
NoFile == [src |-> <<>>, dst |-> <<>>]

\* the cloned tree in the order the directory lists it, which of it is a regular file
\* and what the files hold
TreeOrder == <<<<"a", ".md">>, <<"kubectl", ".md">>, <<"sub">>>>

is_regular(name) == name # <<"sub">>

file_content(name) ==
  IF name = <<"kubectl", ".md">>
  THEN <<"#", " ", "kubectl", NL,
         "[", "kubectl", " ", "get", "]", "(", "kubectl", "_", "get", ".md", ")", NL>>
  ELSE <<"#", " ", "A", NL, "[", "get", "]", "(", "kubectl", "_", "get", ".md", ")", NL>>

RECURSIVE tree_pick(_, _)
tree_pick(S, k) ==
  IF k > Len(TreeOrder) THEN <<>>
  ELSE (IF k \in S THEN <<TreeOrder[k]>> ELSE <<>>) \o tree_pick(S, k + 1)

\* the lists of names a glob can return: what a pattern selects of the directory
GlobResults ==
  {tree_pick(S, 1) : S \in {T \in SUBSET (1..Len(TreeOrder)) : Cardinality(T) <= MaxMatches}}

\* the files entries and glob results of the whole run (Spec): one directory dst and a
\* clone that holds at most one regular file ...
MainFiles == [src : FileSrcs, dst : {<<"docs", "/">>}]
MainGlobResults == {<<>>, <<<<"a", ".md">>>>, <<<<"sub">>>>}

\* ... and of one process_file call (SpecFile): every dst, every glob result
CallFiles == [src : FileSrcs, dst : FileDsts]

\* glob.glob(pattern) for a pattern that ends in "*", the tree matching names
glob_glob(pattern, names) ==
  [k \in 1..Len(names) |-> SubSeq(pattern, 1, Len(pattern) - 1) \o names[k]]

NoLast == [kind |-> "none"]

RunInit ==
  /\ pc = "check_pip"
  /\ env \in Envs
  /\ error_msgs = <<>>
  /\ printed = <<>>
  /\ exit = <<>>
  /\ work_dir = <<>>
  /\ n_repos = 0
  /\ i = 0
  /\ repo = NoRepo
  /\ repo_path = <<>>
  /\ clone = <<>>
  /\ gen = <<>>
  /\ done = <<>>
  /\ f = 0
  /\ file = NoFile
  /\ matches = <<>>
  /\ m = 0
  /\ fs = {}
  /\ last = NoLast

(***************************************************************************)
(* main()'s helpers.                                                       *)
(***************************************************************************)
\* remote_regex (line 234): "https://", a prefix without a newline, ".git", at the end
\* of the string or before its final newline
remote_body(remote) ==
  IF endswith(remote, <<NL>>) THEN SubSeq(remote, 1, Len(remote) - 1) ELSE remote

remote_prefix_of(remote) == SubSeq(remote_body(remote), 2, Len(remote_body(remote)) - 1)

remote_regex_search(remote) ==
  /\ Len(remote_body(remote)) >= 2
  /\ startswith(remote_body(remote), <<"https://">>)
  /\ endswith(remote_body(remote), <<".git">>)
  /\ \A k \in 1..Len(remote_prefix_of(remote)) : remote_prefix_of(remote)[k] # NL

\* line 240
main_repo_path(remote) == os_path_join(<<"src">>, remote_prefix_of(remote))

\* the test of line 247 never taken
clone_failed_never(res) == FALSE

\* the test of line 247
clone_failed(res) == res # 0

\* the test of line 261
generate_failed(res) == res # 0

CloneResults == {0, 128}
GenerateResults == {0, 1}

(***************************************************************************)
(* process_file's helpers.                                                 *)
(***************************************************************************)
\* line 119
process_file_pattern(repo_dir, path, src) == os_path_join(os_path_join(repo_dir, path), src)

\* line 120
process_file_dst_path(root, dst) == os_path_join(root, dst)

\* lines 136-139 without the test of line 137
process_file_dst_always_join(dst_path, src) == os_path_join(dst_path, os_path_basename(src))

\* lines 136-139
process_file_dst(dst_path, src) ==
  IF endswith(dst_path, <<"/">>) THEN os_path_join(dst_path, os_path_basename(src))
  ELSE dst_path

\* the test of line 148
dst_is_kubectl(dst) == endswith(dst, <<"kubectl", ".md">>)

\* lines 144-150: the content to write, or the exception of a transform
process_file_content(content, src, dst, path, gen_absolute_links) ==
  LET linked == IF gen_absolute_links
                THEN process_links(content, path \o <<"/", "tree", "/", "master">>,
                                   os_path_dirname(src))
                ELSE content
  IN IF dst_is_kubectl(dst) THEN process_kubectl_links(linked)
     ELSE [raised |-> FALSE, text |-> linked]

\* the file at path: <<>> when there is none, <<data>> when there is
fs_read(files, path) ==
  IF \E e \in files : e.path = path
  THEN <<(CHOOSE e \in files : e.path = path).data>>
  ELSE <<>>

\* open(path, "w") and write(data): the file holds data and nothing else
fs_write(files, path, data) ==
  {e \in files : e.path # path} \cup {[path |-> path, data |-> data]}

\* open(path, "w") alone: the file is there and empty
fs_truncate(files, path) == fs_write(files, path, <<>>)

(***************************************************************************)
(* The module-level prerequisite tests.                                    *)
(***************************************************************************)
main_vars == <<work_dir, n_repos, i, repo, repo_path, clone, gen, done>>
file_vars == <<f, file, matches, m, fs, last>>

\* an exception nothing catches: the traceback is printed and the status is 1
Uncaught(what) ==
  /\ printed' = <<"Traceback", what>>
  /\ exit' = <<ExitUncaught>>
  /\ pc' = "exited"

\* lines 41-43
CheckPip ==
  /\ pc = "check_pip"
  /\ error_msgs' = IF ~env.pip THEN Append(error_msgs, MSG_PIP) ELSE error_msgs
  /\ pc' = "pip_freeze"
  /\ UNCHANGED <<env, printed, exit, main_vars, file_vars, text_vars>>

\* lines 45-51: check_output raises CalledProcessError when "python -m pip freeze"
\* exits non-zero, as it does when there is no pip module
PipFreeze ==
  /\ pc = "pip_freeze"
  /\ IF ~env.pip_freeze
     THEN /\ Uncaught("CalledProcessError")
          /\ UNCHANGED error_msgs
     ELSE /\ error_msgs' = IF ~env.PyYAML THEN Append(error_msgs, MSG_PYYAML) ELSE error_msgs
          /\ pc' = "check_go"
          /\ UNCHANGED <<printed, exit>>
  /\ UNCHANGED <<env, main_vars, file_vars, text_vars>>

\* lines 53-55
CheckGo ==
  /\ pc = "check_go"
  /\ error_msgs' = IF ~env.go THEN Append(error_msgs, MSG_GO) ELSE error_msgs
  /\ pc' = "main"
  /\ UNCHANGED <<env, printed, exit, main_vars, file_vars, text_vars>>

(***************************************************************************)
(* main()                                                                  *)
(***************************************************************************)
\* return -2
ReturnMinus2 ==
  /\ exit' = <<exit_status(-2)>>
  /\ pc' = "exited"

\* lines 177-180
MainPreflight ==
  /\ pc = "main"
  /\ IF Len(error_msgs) > 0
     THEN /\ printed' = error_msgs
          /\ ReturnMinus2
     ELSE /\ printed' = <<>>
          /\ pc' = "load_config"
          /\ UNCHANGED exit
  /\ UNCHANGED <<env, error_msgs, main_vars, file_vars, text_vars>>

\* lines 183-206: the arguments are parsed and the config file is loaded, or not
LoadConfig ==
  /\ pc = "load_config"
  /\ \E loaded \in BOOLEAN, n \in 0..MaxRepos :
       IF loaded
       THEN /\ n_repos' = n
            /\ printed' = <<>>
            /\ pc' = "mkdtemp"
            /\ UNCHANGED exit
       ELSE /\ n = 0
            /\ printed' = <<"[Error] failed in loading config file">>
            /\ ReturnMinus2
            /\ UNCHANGED n_repos
  /\ UNCHANGED <<env, error_msgs, work_dir, i, repo, repo_path, clone, gen, done, file_vars,
                 text_vars>>

\* lines 208-221: when mkdtemp raises OSError the handler formats work_dir, which is
\* not bound yet, and UnboundLocalError leaves main()
MakeWorkDir ==
  /\ pc = "mkdtemp"
  /\ \E made \in BOOLEAN :
       IF made
       THEN /\ work_dir' = <<TMP_WORK_DIR>>
            /\ i' = 1
            /\ printed' = <<>>
            /\ pc' = "repos"
            /\ UNCHANGED exit
       ELSE /\ Uncaught("UnboundLocalError")
            /\ UNCHANGED <<work_dir, i>>
  /\ UNCHANGED <<env, error_msgs, n_repos, repo, repo_path, clone, gen, done, file_vars,
                 text_vars>>

\* a "continue" of the loop of line 223, or the end of its body: the entry's own
\* variables are dead from here on
EndRepo(how) ==
  /\ done' = Append(done, how)
  /\ i' = i + 1
  /\ pc' = "repos"
  /\ repo' = NoRepo
  /\ repo_path' = <<>>
  /\ f' = 0
  /\ file' = NoFile
  /\ matches' = <<>>
  /\ m' = 0

\* lines 223-240: the next entry, its name, its remote and the path derived from it
RepoStart ==
  /\ pc = "repos"
  /\ i <= n_repos
  /\ \E r \in Repos :
       IF r.name = <<>>
       THEN /\ printed' = <<"[Error] repo missing name">>
            /\ EndRepo("missing_name")
       ELSE IF r.remote = <<>>
       THEN /\ printed' = <<"[Error] repo missing repo path">>
            /\ EndRepo("missing_remote")
       ELSE IF ~remote_regex_search(r.remote[1])
       THEN /\ printed' = <<"[Error] repo path is invalid">>
            /\ EndRepo("invalid_remote")
       ELSE /\ repo' = r
            /\ repo_path' = main_repo_path(r.remote[1])
            /\ printed' = <<>>
            /\ pc' = "clone"
            /\ UNCHANGED <<i, done, f, file, matches, m>>
  /\ clone' = <<>>
  /\ gen' = <<>>
  /\ last' = NoLast
  /\ UNCHANGED <<env, error_msgs, exit, work_dir, n_repos, fs, text_vars>>

\* lines 242-249: repo["branch"] raises KeyError when the key is absent, before git
\* is run
Clone ==
  /\ pc = "clone"
  /\ IF repo.branch = <<>>
     THEN /\ Uncaught("KeyError: 'branch'")
          /\ done' = Append(done, "KeyError")
          /\ UNCHANGED <<clone, i, repo, repo_path, f, file, matches, m>>
     ELSE \E res \in CloneResults :
            /\ clone' = <<[remote |-> repo.remote[1], path |-> repo_path, res |-> res]>>
            /\ IF clone_failed(res)
               THEN /\ printed' = <<"[Error] failed in cloning repo">>
                    /\ EndRepo("clone_failed")
               ELSE /\ printed' = <<"Cloning repo">>
                    /\ pc' = "generate"
                    /\ UNCHANGED <<i, done, repo, repo_path, f, file, matches, m>>
            /\ UNCHANGED exit
  /\ UNCHANGED <<env, error_msgs, work_dir, n_repos, gen, fs, last, text_vars>>

\* line 267 reached: the first entry of repo["files"], or the end of the loop body
ToFiles ==
  IF repo.n_files = 0
  THEN EndRepo("copied")
  ELSE /\ f' = 1
       /\ pc' = "process_file"
       /\ UNCHANGED <<i, done, repo, repo_path, file, matches, m>>

\* lines 251-266
Generate ==
  /\ pc = "generate"
  /\ IF repo.generate_command # <<>>
     THEN \E res \in GenerateResults :
            /\ gen' = <<res>>
            /\ IF generate_failed(res)
               THEN /\ printed' = <<"[Error] failed in generating docs">>
                    /\ EndRepo("generate_failed")
               ELSE /\ printed' = <<"Generating docs">>
                    /\ ToFiles
     ELSE /\ printed' = <<>>
          /\ ToFiles
          /\ UNCHANGED gen
  /\ UNCHANGED <<env, error_msgs, exit, work_dir, n_repos, clone, fs, last, text_vars>>

\* lines 271-275, and sys.exit(main()) with main() returning None
Finish ==
  /\ pc = "repos"
  /\ i > n_repos
  /\ printed' = <<"Completed docs update.">>
  /\ exit' = <<ExitNone>>
  /\ pc' = "exited"
  /\ UNCHANGED <<env, error_msgs, main_vars, file_vars, text_vars>>

(***************************************************************************)
(* process_file                                                            *)
(***************************************************************************)
\* process_file has returned: the next entry of repo["files"], or the end of the
\* loop body
NextFile ==
  IF f < repo.n_files
  THEN /\ f' = f + 1
       /\ pc' = "process_file"
       /\ file' = NoFile
       /\ matches' = <<>>
       /\ m' = 0
       /\ UNCHANGED <<i, done, repo, repo_path>>
  ELSE EndRepo("copied")

\* lines 268-269 and 119-122: the call for one entry of repo["files"], up to the glob
ProcessFile ==
  /\ pc = "process_file"
  /\ \E fl \in MainFiles, names \in MainGlobResults :
       IF names = <<>>
       THEN NextFile
       ELSE /\ file' = fl
            /\ matches' = glob_glob(process_file_pattern(work_dir[1], repo_path, fl.src),
                                    names)
            /\ m' = 1
            /\ pc' = "match"
            /\ UNCHANGED <<i, done, f, repo, repo_path>>
  /\ printed' = <<>>
  /\ UNCHANGED <<env, error_msgs, exit, work_dir, n_repos, clone, gen, fs, last, text_vars>>

\* what the operating system can do to one regular match
MatchOutcomes == {"read_failed", "open_failed", "write_failed", "ok"}

\* the record of one iteration of the loop of line 122: how it ended, the match, the
\* dst argument and the path derived from it, whether process_kubectl_links was
\* called, the content that was to be written and the file at the path beforehand
Iteration(kind, src, dst, kubectl, text) ==
  [kind |-> kind, m |-> m, src |-> src, dst_arg |-> file.dst, dst |-> dst,
   kubectl |-> kubectl, text |-> text, before |-> fs_read(fs, dst)]

\* lines 122-154: one iteration of the loop over the matches
ProcessMatch ==
  /\ pc = "match"
  /\ LET src == matches[m]
         dst_path == process_file_dst_path(root_dir, file.dst)
         dst == process_file_dst(dst_path, src)
         out == process_file_content(file_content(os_path_basename(src)), src, dst,
                                     repo_path, repo.gen_absolute_links)
     IN \E outcome \in MatchOutcomes :
          IF ~is_regular(os_path_basename(src))
          THEN /\ outcome = "ok"
               /\ printed' = <<"[Error] skipping non-regular path">>
               /\ last' = Iteration("not_regular", src, dst, FALSE, <<>>)
               /\ UNCHANGED fs
          ELSE IF outcome = "read_failed"
          THEN /\ printed' = <<"[Error] failed in reading source file: ">>
               /\ last' = Iteration("read_failed", src, dst, FALSE, <<>>)
               /\ UNCHANGED fs
          ELSE IF outcome = "open_failed"
          THEN /\ printed' = <<"Writing doc", "[Error] failed in writing target file">>
               /\ last' = Iteration("open_failed", src, dst, FALSE, <<>>)
               /\ UNCHANGED fs
          ELSE IF out.raised
          THEN /\ outcome = "ok"
               /\ printed' = <<"Writing doc", "Processing kubectl links",
                               "[Error] failed in writing target file">>
               /\ fs' = fs_truncate(fs, dst)
               /\ last' = Iteration("transform_failed", src, dst, TRUE, <<>>)
          ELSE IF outcome = "write_failed"
          THEN /\ printed' = IF dst_is_kubectl(dst)
                             THEN <<"Writing doc", "Processing kubectl links",
                                    "[Error] failed in writing target file">>
                             ELSE <<"Writing doc", "[Error] failed in writing target file">>
               /\ fs' = fs_truncate(fs, dst)
               /\ last' = Iteration("write_failed", src, dst, dst_is_kubectl(dst), out.text)
          ELSE /\ printed' = IF dst_is_kubectl(dst)
                             THEN <<"Writing doc", "Processing kubectl links">>
                             ELSE <<"Writing doc">>
               /\ fs' = fs_write(fs, dst, out.text)
               /\ last' = Iteration("written", src, dst, dst_is_kubectl(dst), out.text)
  /\ IF m < Len(matches)
     THEN /\ m' = m + 1
          /\ UNCHANGED <<pc, i, done, f, repo, repo_path, file, matches>>
     ELSE NextFile
  /\ UNCHANGED <<env, error_msgs, exit, work_dir, n_repos, clone, gen, text_vars>>

(***************************************************************************)
(* The specifications.                                                     *)
(***************************************************************************)
\* the transforms are not running
TextIdle ==
  /\ t_doc = [head |-> <<>>, links |-> <<>>, sep |-> <<>>]
  /\ t_repo_path = <<>>
  /\ t_src = <<>>
  /\ t_out = <<>>
  /\ t_kube = <<>>

Init == RunInit /\ TextIdle

Next ==
  \/ CheckPip
  \/ PipFreeze
  \/ CheckGo
  \/ MainPreflight
  \/ LoadConfig
  \/ MakeWorkDir
  \/ RepoStart
  \/ Clone
  \/ Generate
  \/ ProcessFile
  \/ ProcessMatch
  \/ Finish

Spec == Init /\ [][Next]_vars

(***************************************************************************)
(* One process_file call on its own: SpecFile starts where main() has      *)
(* called process_file for the only files entry of the only repo and the   *)
(* glob has returned, and runs the loop over the matches to the end of the *)
(* run.                                                                    *)
(***************************************************************************)
FileInit ==
  /\ pc = "match"
  /\ env = [pip |-> TRUE, pip_freeze |-> TRUE, PyYAML |-> TRUE, go |-> TRUE]
  /\ error_msgs = <<>>
  /\ printed = <<>>
  /\ exit = <<>>
  /\ work_dir = <<TMP_WORK_DIR>>
  /\ n_repos = 1
  /\ i = 1
  /\ repo \in {r \in Repos : /\ r.name # <<>>
                             /\ r.remote # <<>>
                             /\ r.branch # <<>>
                             /\ r.n_files = 1}
  /\ remote_regex_search(repo.remote[1])
  /\ repo_path = main_repo_path(repo.remote[1])
  /\ clone = <<[remote |-> repo.remote[1], path |-> repo_path, res |-> 0]>>
  /\ gen = IF repo.generate_command # <<>> THEN <<0>> ELSE <<>>
  /\ done = <<>>
  /\ f = 1
  /\ file \in CallFiles
  /\ \E names \in GlobResults \ {<<>>} :
       matches = glob_glob(process_file_pattern(work_dir[1], repo_path, file.src), names)
  /\ m = 1
  /\ fs = {}
  /\ last = NoLast
  /\ TextIdle

FileNext == ProcessMatch \/ Finish

SpecFile == FileInit /\ [][FileNext]_vars

(***************************************************************************)
(* Statements about the run.                                               *)
(***************************************************************************)
Range(seq) == {seq[k] : k \in 1..Len(seq)}

\* the messages of the prerequisites that env lacks, in the order of the tests
MissingMessages ==
  (IF ~env.pip THEN <<MSG_PIP>> ELSE <<>>)
  \o (IF ~env.PyYAML THEN <<MSG_PYYAML>> ELSE <<>>)
  \o (IF ~env.go THEN <<MSG_GO>> ELSE <<>>)

\* C1: when a prerequisite is missing, all three tests have run by the time the run
\* ends, the run has printed the message of every missing prerequisite, its status is
\* not 0, and it has made no working directory, cloned nothing, run no generator and
\* written no file.
C1_PreflightReportsAll ==
  (pc = "exited" /\ MissingMessages # <<>>) =>
    /\ error_msgs = MissingMessages
    /\ printed = MissingMessages
    /\ exit[1] # 0
    /\ work_dir = <<>>
    /\ clone = <<>>
    /\ gen = <<>>
    /\ fs = {}

\* C2: a clone goes to src/<prefix>, <prefix> the remote between https:// and .git;
\* an entry whose remote does not match is reported and ends there, with nothing
\* cloned, generated or copied for it, and a run that has met one ends with status 0.
C2_RemotePattern ==
  /\ clone # <<>> =>
       clone[1].path = <<"src", "/">> \o SubSeq(clone[1].remote, 2, Len(clone[1].remote) - 1)
  /\ printed = <<"[Error] repo path is invalid">> =>
       /\ pc = "repos"
       /\ done[i - 1] = "invalid_remote"
       /\ clone = <<>> /\ gen = <<>> /\ last = NoLast
  /\ (exit # <<>> /\ "invalid_remote" \in Range(done)) => exit[1] = 0

\* C3: an entry that lacks name, remote or branch is reported and ends there, and the
\* loop goes on to the next entry: the run does not end on it.
C3_MissingFieldSkips ==
  \A k \in 1..Len(done) :
    done[k] \in {"missing_name", "missing_remote", "KeyError"} =>
      /\ i > k
      /\ (i = k + 1 /\ pc = "repos") =>
           /\ printed \in {<<"[Error] repo missing name">>, <<"[Error] repo missing repo path">>,
                           <<"[Error] repo missing branch">>}
           /\ clone = <<>> /\ gen = <<>> /\ last = NoLast

\* C4: process_file runs for an entry (and a file is written for it) only after its
\* clone has exited 0 and, if it has a generate-command, after that has exited 0; a
\* clone or a generate-command that exits non-zero ends the entry with no
\* process_file call, and the loop is at the next entry.
C4_CopyOnlyAfterSuccess ==
  /\ (pc \in {"process_file", "match"} \/ last # NoLast) =>
       /\ clone # <<>> /\ clone[1].res = 0
       /\ gen # <<>> => gen[1] = 0
  /\ (pc \in {"process_file", "match"} /\ repo.generate_command # <<>>) => gen = <<0>>
  /\ ((clone # <<>> /\ clone[1].res # 0) \/ (gen # <<>> /\ gen[1] # 0)) =>
       /\ last = NoLast
       /\ done # <<>> /\ done[Len(done)] \in {"clone_failed", "generate_failed"}
       /\ i = Len(done) + 1
       /\ pc \in {"repos", "exited"}
       /\ pc = "exited" => (i > n_repos /\ exit = <<ExitNone>>)

\* the first entry's clone failed and a file of the second entry has been written
C4_Witness ==
  /\ done # <<>> /\ done[1] = "clone_failed"
  /\ last.kind = "written"
  /\ fs # {}

(***************************************************************************)
(* Statements about process_file.                                          *)
(***************************************************************************)
\* the path the spec gives a match: <doc root>/<dst>/<base name> for a dst that ends
\* in "/", <doc root>/<dst> otherwise
DestinationOf(dst_arg, src) ==
  IF dst_arg[Len(dst_arg)] = "/"
  THEN root_dir \o <<"/">> \o dst_arg \o os_path_basename(src)
  ELSE root_dir \o <<"/">> \o dst_arg

\* C8: a match that is written is written to <doc root>/<dst>/<base name of the
\* match> when dst ends in "/" and to <doc root>/<dst> otherwise, and once it is
\* written that file holds its content and nothing of an earlier match.
C8_DestinationResolution ==
  last.kind = "written" =>
    /\ last.dst = DestinationOf(last.dst_arg, last.src)
    /\ fs_read(fs, DestinationOf(last.dst_arg, last.src)) = <<last.text>>

\* the second match of a glob has been written over the first at a dst that is a file
C8_Witness ==
  /\ last.kind = "written"
  /\ last.m = 2
  /\ last.dst_arg[Len(last.dst_arg)] # "/"
  /\ last.before # <<>> /\ last.before # <<<<>>>>
  /\ fs_read(fs, last.dst) # last.before

FailureKinds == {"not_regular", "read_failed", "open_failed", "transform_failed",
                 "write_failed"}

\* C9: an iteration that fails (the match is not a regular file, or reading,
\* transforming or writing fails) reports it, writes no data to its destination,
\* leaves every file that was written before as it was, and the loop goes on.
C9_FailuresIsolated ==
  last.kind \in FailureKinds =>
    /\ fs_read(fs, last.dst) \in {last.before, <<<<>>>>}
    /\ (last.before # <<>> /\ last.before # <<<<>>>>) => fs_read(fs, last.dst) = last.before
    /\ pc \in {"match", "process_file", "repos", "exited"}
    /\ pc # "exited" => \E k \in 1..Len(printed) :
                          printed[k] \in {"[Error] skipping non-regular path",
                                          "[Error] failed in reading source file: ",
                                          "[Error] failed in writing target file"}

\* C10: process_kubectl_links is called for a file that is written exactly when the
\* name of the destination file is kubectl.md.
C10_KubectlOnlyForKubectlMd ==
  last.kind = "written" =>
    (last.kubectl <=> os_path_basename(last.dst) = <<"kubectl", ".md">>)

\* the run is not started
RunIdle ==
  /\ pc = "idle"
  /\ env = [pip |-> TRUE, pip_freeze |-> TRUE, PyYAML |-> TRUE, go |-> TRUE]
  /\ error_msgs = <<>>
  /\ printed = <<>>
  /\ exit = <<>>
  /\ work_dir = <<>>
  /\ n_repos = 0
  /\ i = 0
  /\ repo = NoRepo
  /\ repo_path = <<>>
  /\ clone = <<>>
  /\ gen = <<>>
  /\ done = <<>>
  /\ f = 0
  /\ file = NoFile
  /\ matches = <<>>
  /\ m = 0
  /\ fs = {}
  /\ last = NoLast

TextInit ==
  /\ RunIdle
  /\ t_doc \in Docs
  /\ t_repo_path \in TextRepoPaths
  /\ t_src \in TextSrcs
  /\ t_out = <<>>
  /\ t_kube = <<>>

\* content = process_links(content, remote_prefix, src_dir), on the content or on
\* the previous call's result
ApplyLinks ==
  /\ Len(t_out) < 2
  /\ t_out' = Append(t_out,
                     process_links(IF t_out = <<>> THEN RenderDoc(t_doc) ELSE t_out[Len(t_out)],
                                   text_remote_prefix, text_src_dir))
  /\ UNCHANGED <<t_doc, t_repo_path, t_src, t_kube, run_vars>>

\* content = process_kubectl_links(content)
ApplyKubectl ==
  /\ t_kube = <<>>
  /\ t_kube' = <<process_kubectl_links(RenderDoc(t_doc))>>
  /\ UNCHANGED <<t_doc, t_repo_path, t_src, t_out, run_vars>>

TextNext == ApplyLinks \/ ApplyKubectl

SpecText == TextInit /\ [][TextNext]_vars

====
